---- MODULE Spec2Model ----
(***************************************************************************)
(* Model of src/radix_sort.h: sort_radix, its per-pass worker threads      *)
(* (sort_radix_thread), sort_counting and sort_insertion.                  *)
(*                                                                         *)
(* The driver thread and the MAX_THREADS workers are interleaved at the    *)
(* level of C statements: every statement that accesses memory the threads *)
(* share (cnt_arr_global, sorted_arr) is one step.  Code that touches only *)
(* memory private to one thread (a worker's own chunk of arr while the     *)
(* pass runs, its cnt_arr_local) is taken as one step.  The statements are *)
(* not atomic in C, so the code has further behaviours (lost updates       *)
(* inside one statement); every behaviour of the model is one of the code. *)
(*                                                                         *)
(* The program's compile-time constants are scaled so that TLC can         *)
(* enumerate the interleavings; the ratios the code depends on are kept:   *)
(*   source: MAX_THREADS 8, RADIX 256 = 2^8, threshold 32, int of 32 bits  *)
(*   model : MAX_THREADS 3, RADIX 4 = 2^2, threshold 1,  int of 6 bits     *)
(* In both, RADIX = 2^DigitBits, IntBits is a multiple of DigitBits and    *)
(* the top digit of a non-negative int carries value bits.                 *)
(***************************************************************************)
EXTENDS Integers, Sequences, FiniteSets, TLC

\* ---- program constants (scaled, see above) ----
MAX_THREADS == 3
DigitBits == 2
IntBits == 6
INSERTION_SORT_THRESHOLD == 1
RADIX == 2 ^ DigitBits

\* ---- bounds of the model ----
\* longest array passed to sort_radix
MaxN == 4
\* largest element of the arrays long enough for sort_counting to run
MaxCountVal == 1
\* largest digit_exp the model tells apart (see NextDigitExp)
MaxDigitExp == 5

Threads == 0 .. (MAX_THREADS - 1)
Digits == 0 .. (RADIX - 1)
NumDigits == IntBits \div DigitBits
\* elements of the shorter arrays: 0 and one value for each number of digits
Vals == {0} \cup {RADIX ^ k : k \in 0 .. (NumDigits - 1)}
\* a cell of sorted_arr that malloc returned and nobody has written yet
Uninit == -1
\* what a read of indeterminate memory may yield: any int; the model takes the
\* smallest and the largest of the non-negative values it uses
Garbage == {0, RADIX ^ (NumDigits - 1)}

VARIABLES
  n,               \* argument n
  arr,             \* argument arr, [0..n-1 -> Int]
  input,           \* history: arr as passed by the caller
  mainpc,          \* position of the driver thread in sort_radix
  max_elem,
  digit_exp,
  ci,              \* the driver's loop index i in the create and join loops
  cnt_arr_global,
  sorted_arr,
  cnt_arrs_local,
  params,          \* SortParams of each worker
  wpc,             \* position of each worker
  wi,              \* each worker's loop index i
  wdigit,          \* each worker's local `digit`
  oob              \* history: set of out-of-bounds accesses made so far

vars == <<n, arr, input, mainpc, max_elem, digit_exp, ci, cnt_arr_global,
          sorted_arr, cnt_arrs_local, params, wpc, wi, wdigit, oob>>

mainVars == <<mainpc, max_elem, digit_exp, ci, params>>
workerRegs == <<wi, wdigit>>

ZeroCounts == [d \in Digits |-> 0]
NoParams == [start_idx |-> 0, end_idx |-> -1, digit_exp |-> 0]

\* ---- pure helpers ----

RECURSIVE MaxFrom(_, _, _, _)
MaxFrom(a, len, i, m) ==
  IF i < len THEN MaxFrom(a, len, i + 1, IF a[i] > m THEN a[i] ELSE m) ELSE m

\* x >> c for a non-negative x.  A count >= the width of int is undefined in C:
\* the outcomes are 0 (the bits are shifted out) and the shift the hardware does
\* with the count taken modulo the width.
ShrWide(x, c) == x \div (2 ^ (c % IntBits))
ShrOutcomes(x, c) == IF c < IntBits THEN {x \div (2 ^ c)} ELSE {0, ShrWide(x, c)}

\* (x >> (8 * digit_exp)) & 0xFF as a worker computes it.  A worker meets a
\* count >= the width only in a pass the loop condition let through, that is
\* on a build whose shift takes the count modulo the width.
DigitOf(x, d) == ShrWide(x, DigitBits * d) % RADIX

\* the first loop of sort_counting, on the worker's own chunk and counters
RECURSIVE CountLoop(_, _, _, _, _)
CountLoop(a, i, e, d, cnt) ==
  IF i <= e
    THEN CountLoop(a, i + 1, e, d, [cnt EXCEPT ![DigitOf(a[i], d)] = @ + 1])
    ELSE cnt

\* the inner loop of sort_insertion with the test j > start_idx
RECURSIVE ShiftRightStrict(_, _, _, _)
ShiftRightStrict(a, s, j, key) ==
  IF j > s /\ a[j] > key
    THEN ShiftRightStrict([a EXCEPT ![j + 1] = a[j]], s, j - 1, key)
    ELSE [a EXCEPT ![j + 1] = key]

\* lines 45-50: the inner loop of sort_insertion and the store of the key
RECURSIVE ShiftRight(_, _, _, _)
ShiftRight(a, s, j, key) ==
  IF j >= s /\ a[j] > key
    THEN ShiftRight([a EXCEPT ![j + 1] = a[j]], s, j - 1, key)
    ELSE [a EXCEPT ![j + 1] = key]

RECURSIVE InsLoop(_, _, _, _)
InsLoop(a, s, e, i) ==
  IF i <= e THEN InsLoop(ShiftRight(a, s, i - 1, a[i]), s, e, i + 1) ELSE a

sort_insertion(a, s, e) == InsLoop(a, s, e, s + 1)

chunk_size(len) == (len + MAX_THREADS - 1) \div MAX_THREADS
StartIdx(i, len) == i * chunk_size(len)
EndIdx(i, len) ==
  IF i = MAX_THREADS - 1 THEN len - 1 ELSE (i + 1) * chunk_size(len) - 1

\* ---- initial state: the call sort_radix(arr, n) ----

\* the arrays of length len the caller may pass
Inputs(len) ==
  IF chunk_size(len) > INSERTION_SORT_THRESHOLD
    THEN [0 .. (len - 1) -> 0 .. MaxCountVal]
    ELSE [0 .. (len - 1) -> Vals]

Init ==
  /\ n \in 0 .. MaxN
  /\ arr \in Inputs(n)
  /\ input = arr
  /\ mainpc = "find_max"
  /\ max_elem = 0
  /\ digit_exp = 0
  /\ ci = 0
  /\ cnt_arr_global = ZeroCounts
  /\ sorted_arr = [k \in 0 .. (n - 1) |-> Uninit]
  /\ cnt_arrs_local = [t \in Threads |-> ZeroCounts]
  /\ params = [t \in Threads |-> NoParams]
  /\ wpc = [t \in Threads |-> "idle"]
  /\ wi = [t \in Threads |-> 0]
  /\ wdigit = [t \in Threads |-> 0]
  /\ oob = {}

\* ---- the driver thread ----

\* lines 116-121; with n = 0 the initialiser reads arr[0], which does not exist
FindMax ==
  /\ mainpc = "find_max"
  /\ IF n = 0
       THEN /\ max_elem' \in Garbage
            /\ oob' = oob \cup {"arr_read"}
       ELSE /\ max_elem' = MaxFrom(arr, n, 1, arr[0])
            /\ oob' = oob
  /\ mainpc' = "alloc"
  /\ UNCHANGED <<n, arr, input, digit_exp, ci, cnt_arr_global, sorted_arr,
                 cnt_arrs_local, params, wpc, workerRegs>>

\* lines 128-131
Alloc ==
  /\ mainpc = "alloc"
  /\ cnt_arr_global' = ZeroCounts
  /\ sorted_arr' = [k \in 0 .. (n - 1) |-> Uninit]
  /\ digit_exp' = 0
  /\ mainpc' = "cond"
  /\ UNCHANGED <<n, arr, input, max_elem, ci, cnt_arrs_local, params, wpc,
                 workerRegs, oob>>

\* line 133 true, then lines 141-144
LoopEnter ==
  /\ mainpc = "cond"
  /\ \E r \in ShrOutcomes(max_elem, DigitBits * digit_exp) : r > 0
  /\ cnt_arrs_local' = [t \in Threads |-> ZeroCounts]
  /\ ci' = 0
  /\ mainpc' = "create"
  /\ UNCHANGED <<n, arr, input, max_elem, digit_exp, cnt_arr_global, sorted_arr,
                 params, wpc, workerRegs, oob>>

\* line 133 false, then lines 193-194 and the return
LoopExit ==
  /\ mainpc = "cond"
  /\ \E r \in ShrOutcomes(max_elem, DigitBits * digit_exp) : ~(r > 0)
  /\ mainpc' = "done"
  /\ UNCHANGED <<n, arr, input, max_elem, digit_exp, ci, cnt_arr_global,
                 sorted_arr, cnt_arrs_local, params, wpc, workerRegs, oob>>

\* lines 146-162, one iteration
Create ==
  /\ mainpc = "create"
  /\ ci < MAX_THREADS
  /\ params' = [params EXCEPT ![ci] = [start_idx |-> StartIdx(ci, n),
                                       end_idx |-> EndIdx(ci, n),
                                       digit_exp |-> digit_exp]]
  /\ wpc' = [wpc EXCEPT ![ci] = "start"]
  /\ ci' = IF ci + 1 = MAX_THREADS THEN 0 ELSE ci + 1
  /\ mainpc' = IF ci + 1 = MAX_THREADS THEN "join" ELSE "create"
  /\ UNCHANGED <<n, arr, input, max_elem, digit_exp, cnt_arr_global, sorted_arr,
                 cnt_arrs_local, workerRegs, oob>>

\* a join that returns whether or not the thread has ended
JoinableNoWait(t) == TRUE

\* may pthread_join(threads[t], NULL) return?  Only once thread t has ended.
Joinable(t) == wpc[t] = "done"

\* lines 170-171, one iteration
Join ==
  /\ mainpc = "join"
  /\ Joinable(ci)
  /\ ci' = IF ci + 1 = MAX_THREADS THEN 0 ELSE ci + 1
  /\ mainpc' = IF ci + 1 = MAX_THREADS THEN "reset" ELSE "join"
  /\ UNCHANGED <<n, arr, input, max_elem, digit_exp, cnt_arr_global, sorted_arr,
                 cnt_arrs_local, params, wpc, workerRegs, oob>>

\* digit_exp++ of line 133.  Past the width of int only the count modulo the
\* width matters (ShrWide), so the counter is kept in a window of NumDigits
\* values above MaxDigitExp - NumDigits.
NextDigitExp(d) == IF d + 1 > MaxDigitExp THEN d + 1 - NumDigits ELSE d + 1

\* the end of a pass without the memset of line 180
ResetNoMemset ==
  /\ mainpc = "reset"
  /\ cnt_arrs_local' = [t \in Threads |-> ZeroCounts]
  /\ digit_exp' = NextDigitExp(digit_exp)
  /\ mainpc' = "cond"
  /\ UNCHANGED <<n, arr, input, max_elem, ci, cnt_arr_global, sorted_arr,
                 params, wpc, workerRegs, oob>>

\* lines 180-188 and the loop's increment
Reset ==
  /\ mainpc = "reset"
  /\ cnt_arr_global' = ZeroCounts
  /\ cnt_arrs_local' = [t \in Threads |-> ZeroCounts]
  /\ digit_exp' = NextDigitExp(digit_exp)
  /\ mainpc' = "cond"
  /\ UNCHANGED <<n, arr, input, max_elem, ci, sorted_arr, params, wpc,
                 workerRegs, oob>>

\* ---- a worker thread: sort_radix_thread(&params[t]) ----

Alive == mainpc # "aborted"
ChunkSize(t) == params[t].end_idx - params[t].start_idx + 1

\* lines 97-103: the chunk is small, sort_insertion on the worker's own chunk
WInsertion(t) ==
  /\ Alive
  /\ wpc[t] = "start"
  /\ ChunkSize(t) <= INSERTION_SORT_THRESHOLD
  /\ arr' = sort_insertion(arr, params[t].start_idx, params[t].end_idx)
  /\ wpc' = [wpc EXCEPT ![t] = "done"]
  /\ UNCHANGED <<n, input, mainVars, cnt_arr_global, sorted_arr, cnt_arrs_local,
                 workerRegs, oob>>

\* lines 105-107 and 59-72: the call of sort_counting and its counting loop
WCount(t) ==
  /\ Alive
  /\ wpc[t] = "start"
  /\ ChunkSize(t) > INSERTION_SORT_THRESHOLD
  /\ cnt_arrs_local' =
       [cnt_arrs_local EXCEPT ![t] = CountLoop(arr, params[t].start_idx,
                                               params[t].end_idx,
                                               params[t].digit_exp, @)]
  /\ wi' = [wi EXCEPT ![t] = 0]
  /\ wpc' = [wpc EXCEPT ![t] = "fold"]
  /\ UNCHANGED <<n, arr, input, mainVars, cnt_arr_global, sorted_arr, wdigit, oob>>

\* line 76, and the loop's step (line 75); after the last one the prefix-sum
\* loop starts at 1 (line 79)
WFold(t) ==
  /\ Alive
  /\ wpc[t] = "fold"
  /\ cnt_arr_global' =
       [cnt_arr_global EXCEPT ![wi[t]] = @ + cnt_arrs_local[t][wi[t]]]
  /\ IF wi[t] + 1 < RADIX
       THEN /\ wi' = [wi EXCEPT ![t] = @ + 1]
            /\ wpc' = wpc
       ELSE /\ wi' = [wi EXCEPT ![t] = 1]
            /\ wpc' = [wpc EXCEPT ![t] = "prefix"]
  /\ UNCHANGED <<n, arr, input, mainVars, sorted_arr, cnt_arrs_local, wdigit, oob>>

\* line 80, and the loop's step (line 79); after the last one the scatter loop
\* starts at end_idx (line 83).  On an empty chunk neither the scatter loop
\* nor the copy loop (line 90) runs an iteration and the function returns.
WPrefix(t) ==
  /\ Alive
  /\ wpc[t] = "prefix"
  /\ cnt_arr_global' =
       [cnt_arr_global EXCEPT ![wi[t]] = @ + cnt_arr_global[wi[t] - 1]]
  /\ IF wi[t] + 1 < RADIX
       THEN /\ wi' = [wi EXCEPT ![t] = @ + 1]
            /\ wpc' = wpc
       ELSE IF params[t].end_idx >= params[t].start_idx
              THEN /\ wi' = [wi EXCEPT ![t] = params[t].end_idx]
                   /\ wpc' = [wpc EXCEPT ![t] = "scatter"]
              ELSE /\ wi' = [wi EXCEPT ![t] = 0]
                   /\ wpc' = [wpc EXCEPT ![t] = "done"]
  /\ UNCHANGED <<n, arr, input, mainVars, sorted_arr, cnt_arrs_local, wdigit, oob>>

\* the digit line 84 computes
ScatterDigit(t) == DigitOf(arr[wi[t]], params[t].digit_exp)

\* the index of sorted_arr line 85 writes
ScatterIndex(t) == cnt_arr_global[ScatterDigit(t)] - 1

\* lines 84-85: the write of sorted_arr[cnt_arr_global[digit] - 1], inside the
\* buffer
WScatter(t) ==
  /\ Alive
  /\ wpc[t] = "scatter"
  /\ ScatterIndex(t) \in 0 .. (n - 1)
  /\ sorted_arr' = [sorted_arr EXCEPT ![ScatterIndex(t)] = arr[wi[t]]]
  /\ wdigit' = [wdigit EXCEPT ![t] = ScatterDigit(t)]
  /\ wpc' = [wpc EXCEPT ![t] = "dec"]
  /\ UNCHANGED <<n, arr, input, mainVars, cnt_arr_global, cnt_arrs_local, wi, oob>>

\* lines 84-85 with an index outside the buffer: the write lands in memory the
\* program does not own.  Either nothing the program looks at changes, or the
\* process is killed.
WScatterWild(t) ==
  /\ Alive
  /\ wpc[t] = "scatter"
  /\ ScatterIndex(t) \notin 0 .. (n - 1)
  /\ oob' = oob \cup {"sorted_write"}
  /\ \/ /\ wdigit' = [wdigit EXCEPT ![t] = ScatterDigit(t)]
        /\ wpc' = [wpc EXCEPT ![t] = "dec"]
        /\ mainpc' = mainpc
     \/ /\ wdigit' = wdigit
        /\ wpc' = wpc
        /\ mainpc' = "aborted"
  /\ UNCHANGED <<n, arr, input, max_elem, digit_exp, ci, params, cnt_arr_global,
                 sorted_arr, cnt_arrs_local, wi>>

\* line 86, and the loop's step (line 83); after the last one the copy loop
\* starts at start_idx (line 90)
WScatterDec(t) ==
  /\ Alive
  /\ wpc[t] = "dec"
  /\ cnt_arr_global' = [cnt_arr_global EXCEPT ![wdigit[t]] = @ - 1]
  /\ wdigit' = [wdigit EXCEPT ![t] = 0]
  /\ IF wi[t] - 1 >= params[t].start_idx
       THEN /\ wi' = [wi EXCEPT ![t] = @ - 1]
            /\ wpc' = [wpc EXCEPT ![t] = "scatter"]
       ELSE /\ wi' = [wi EXCEPT ![t] = params[t].start_idx]
            /\ wpc' = [wpc EXCEPT ![t] = "copy"]
  /\ UNCHANGED <<n, arr, input, mainVars, sorted_arr, cnt_arrs_local, oob>>

\* what a read of sorted_arr[k] may yield: the cell's value, or anything when
\* the cell has never been written since malloc
SortedRead(k) == IF sorted_arr[k] = Uninit THEN Garbage ELSE {sorted_arr[k]}

\* the index of sorted_arr line 91 reads
CopySource(t) == wi[t] - params[t].start_idx

\* line 91, and the loop's step (line 90); after the last one the thread ends
WCopy(t) ==
  /\ Alive
  /\ wpc[t] = "copy"
  /\ \E v \in SortedRead(CopySource(t)) : arr' = [arr EXCEPT ![wi[t]] = v]
  /\ IF wi[t] + 1 <= params[t].end_idx
       THEN /\ wi' = [wi EXCEPT ![t] = @ + 1]
            /\ wpc' = wpc
       ELSE /\ wi' = [wi EXCEPT ![t] = 0]
            /\ wpc' = [wpc EXCEPT ![t] = "done"]
  /\ UNCHANGED <<n, input, mainVars, cnt_arr_global, sorted_arr, cnt_arrs_local,
                 wdigit, oob>>

Worker(t) ==
  \/ WInsertion(t)
  \/ WCount(t)
  \/ WFold(t)
  \/ WPrefix(t)
  \/ WScatter(t)
  \/ WScatterWild(t)
  \/ WScatterDec(t)
  \/ WCopy(t)

Driver ==
  \/ FindMax
  \/ Alloc
  \/ LoopEnter
  \/ LoopExit
  \/ Create
  \/ Join
  \/ Reset

Next == Driver \/ \E t \in Threads : Worker(t)

Spec == Init /\ [][Next]_vars

\* the scheduler lets every thread that can take a step take one eventually
Fairness == WF_vars(Driver) /\ \A t \in Threads : WF_vars(Worker(t))
FairSpec == Init /\ [][Next]_vars /\ Fairness

\* ---- vocabulary of the properties ----

Returned == mainpc = "done"
Live(t) == wpc[t] \notin {"idle", "done"}
Chunk(t) == params[t].start_idx .. params[t].end_idx
IsSorted(a, len) == \A i \in 0 .. (len - 2) : a[i] <= a[i + 1]
Occurrences(a, len, v) == Cardinality({i \in 0 .. (len - 1) : a[i] = v})
AllVals == Vals \cup Garbage \cup (0 .. MaxCountVal)
IsPermutation(a, b, len) ==
  \A v \in AllVals : Occurrences(a, len, v) = Occurrences(b, len, v)

\* the counters of cnt_arr_global the next statement of worker t writes / reads
GlobalWrites(t) ==
  CASE wpc[t] = "fold" -> {wi[t]}
    [] wpc[t] = "prefix" -> {wi[t]}
    [] wpc[t] = "dec" -> {wdigit[t]}
    [] OTHER -> {}
GlobalReads(t) ==
  CASE wpc[t] = "fold" -> {wi[t]}
    [] wpc[t] = "prefix" -> {wi[t], wi[t] - 1}
    [] wpc[t] = "scatter" -> {ScatterDigit(t)}
    [] wpc[t] = "dec" -> {wdigit[t]}
    [] OTHER -> {}
\* two workers are about to access one counter, one of them writing, and
\* nothing orders the two accesses
Race(t, u) ==
  /\ t # u
  /\ Alive
  /\ GlobalWrites(t) \cap (GlobalWrites(u) \cup GlobalReads(u)) # {}

\* worker u of the running pass runs sort_counting and has not finished folding
UsesCounting(u) ==
  EndIdx(u, n) - StartIdx(u, n) + 1 > INSERTION_SORT_THRESHOLD
FoldPending(u) ==
  /\ UsesCounting(u)
  /\ \/ mainpc = "create" /\ u >= ci
     \/ wpc[u] \in {"start", "fold"}

\* ---- the claims ----

\* C1: when sort_radix returns, arr[0..n) is non-decreasing.
C1_SortedOnReturn == Returned => IsSorted(arr, n)

\* C2: when sort_radix returns, arr[0..n) is a permutation of the input.
C2_PermutationOnReturn == Returned => IsPermutation(arr, input, n)

\* C3: no data race on the global histogram is reachable: never are two workers
\* about to access the same counter of cnt_arr_global, one of them writing.
C3_NoHistogramRace == \A t, u \in Threads : ~Race(t, u)

\* C4: within a pass no worker is in its prefix-sum or scatter step while some
\* worker of the pass has not finished folding its local histogram.
C4_FoldBeforeScatter ==
  \A t, u \in Threads :
    (Alive /\ wpc[t] \in {"prefix", "scatter", "dec"}) => ~FoldPending(u)

\* C5: passes are separated by a full join: while the driver is anywhere but in
\* the create and join loops (it evaluates the loop condition, resets the
\* histogram or has returned) no worker is live; a worker slot is free when
\* the driver is about to start a thread in it; and every live worker carries
\* the digit index of the running pass.
C5_PassBarrier ==
  Alive =>
    /\ mainpc \notin {"create", "join"} => \A t \in Threads : ~Live(t)
    /\ mainpc = "create" => \A t \in Threads : t >= ci => ~Live(t)
    /\ \A t \in Threads : Live(t) => params[t].digit_exp = digit_exp
\* a worker of a later pass is live (so the pass before it has been joined)
C5_Witness == \E t \in Threads : Live(t) /\ digit_exp >= 1 /\ mainpc = "join"

\* C6: under fair scheduling, sort_radix called on a non-empty array of
\* non-negative ints eventually returns.  (A run in which the process is killed
\* after a wild write is counted as ended here, so the runs that violate this
\* are runs that go on forever.)
C6_EventuallyReturns == (n >= 1) => <>(mainpc \in {"done", "aborted"})

\* C7: if the input is already non-decreasing, the array is unchanged when
\* sort_radix returns.
C7_SortedInputUnchanged == (Returned /\ IsSorted(input, n)) => arr = input

\* C8: if the input holds n copies of one value, so does the array when
\* sort_radix returns.
C8_AllEqualUnchanged ==
  (Returned /\ \A i \in 0 .. (n - 1) : input[i] = input[0]) => arr = input

\* C9: for n <= 1 the array is never changed and no index outside [0, n) is
\* read or written (for n = 0 not even arr[0]).
C9_SmallIsNoOp == n <= 1 => (arr = input /\ oob = {})

\* C10: the chunks the driver hands to the workers of a pass are pairwise
\* disjoint and their union is exactly [0, n).
C10_ChunksPartition ==
  mainpc = "join" =>
    /\ \A t, u \in Threads : t # u => Chunk(t) \cap Chunk(u) = {}
    /\ UNION {Chunk(t) : t \in Threads} = 0 .. (n - 1)

\* the value formed by digits 0..d of x (its low DigitBits*(d+1) bits)
LowKey(x, d) == x % (RADIX ^ (d + 1))
\* the least P with m >> (DigitBits * P) = 0
RECURSIVE NumPasses(_)
NumPasses(m) == IF m = 0 THEN 0 ELSE 1 + NumPasses(m \div RADIX)
\* worker t takes the step from program position `from` to position `to`
Moves(t, from, to) == wpc[t] = from /\ wpc'[t] = to /\ mainpc' # "aborted"

\* C11: once the workers of digit pass d are all joined, the array is sorted by
\* the composite key of digits 0..d: LowKey(arr[i], d) <= LowKey(arr[j], d)
\* for all i < j in [0, n).
C11_LsdInvariant ==
  (mainpc = "reset" /\ digit_exp < NumDigits) =>
    \A i, j \in 0 .. (n - 1) :
      i < j => LowKey(arr[i], digit_exp) <= LowKey(arr[j], digit_exp)

\* C12: within one pass no cell of sorted_arr is written twice.  Stated for
\* the first pass, where a cell has been written in the pass exactly if it is
\* no longer as malloc left it: every scatter write goes to such a cell.
C12_SlotWrittenOnce ==
  [][\A t \in Threads :
       (Moves(t, "scatter", "dec") /\ params[t].digit_exp = 0
          /\ ScatterIndex(t) \in 0 .. (n - 1))
       => sorted_arr[ScatterIndex(t)] = Uninit]_vars

\* C13: when a worker enters its scatter loop, cnt_arr_global[i] is, for every
\* digit i, the number of elements of arr[0..n) whose current digit is <= i.
C13_PrefixSumsAtScatter ==
  [][\A t \in Threads :
       Moves(t, "prefix", "scatter") =>
         \A i \in Digits :
           cnt_arr_global'[i] =
             Cardinality({k \in 0 .. (n - 1) :
                            DigitOf(arr'[k], params[t].digit_exp) <= i})]_vars

\* C14: when a worker has finished its copy-back loop, arr[i] = sorted_arr[i]
\* for every i of its chunk (a cell of sorted_arr nobody has written can hold
\* anything and is not compared).
C14_CopyBackOwnRange ==
  [][\A t \in Threads :
       Moves(t, "copy", "done") =>
         \A i \in Chunk(t) :
           sorted_arr'[i] # Uninit => arr'[i] = sorted_arr'[i]]_vars

\* C15: for a non-empty input with maximum m, sort_radix runs the passes
\* 0, 1, ..., NumPasses(m) - 1 and no other: a pass that runs has a digit
\* index below NumPasses(m), and on return digit_exp = NumPasses(m); when
\* m = 0 no worker has been launched and the array is unchanged.
C15_ExactPasses ==
  n >= 1 =>
    LET P == NumPasses(MaxFrom(input, n, 1, input[0])) IN
      /\ mainpc \in {"create", "join", "reset"} => digit_exp < P
      /\ Returned => digit_exp = P
      /\ (Returned /\ P = 0) =>
           (arr = input /\ \A t \in Threads : wpc[t] = "idle")

\* C19: no scatter write ever targets an index of sorted_arr outside [0, n).
C19_ScatterInBounds == "sorted_write" \notin oob

\* ---- the workers of a pass run one after the other ----
\* The schedule in which each worker runs to its end before the next one
\* starts, computed on a record m = [arr, sorted, g, wild]: the array, the
\* output buffer, the shared histogram, and whether a scatter write fell
\* outside the buffer.

\* lines 75-76 of sort_counting
SeqFold(g, cnt) == [k \in Digits |-> g[k] + cnt[k]]

\* lines 79-80
RECURSIVE SeqPrefix(_, _)
SeqPrefix(g, i) ==
  IF i < RADIX THEN SeqPrefix([g EXCEPT ![i] = @ + g[i - 1]], i + 1) ELSE g

\* lines 83-87
RECURSIVE SeqScatter(_, _, _, _, _)
SeqScatter(m, len, s, i, d) ==
  IF i >= s
    THEN LET digit == DigitOf(m.arr[i], d)
             idx == m.g[digit] - 1
         IN SeqScatter([m EXCEPT
                          !.sorted = IF idx \in 0 .. (len - 1)
                                       THEN [@ EXCEPT ![idx] = m.arr[i]] ELSE @,
                          !.wild = @ \/ idx \notin 0 .. (len - 1),
                          !.g = [@ EXCEPT ![digit] = @ - 1]],
                       len, s, i - 1, d)
    ELSE m

\* lines 90-91; a cell of sorted_arr never written is copied as it is
RECURSIVE SeqCopy(_, _, _, _)
SeqCopy(m, s, e, i) ==
  IF i <= e
    THEN SeqCopy([m EXCEPT !.arr = [@ EXCEPT ![i] = m.sorted[i - s]]], s, e, i + 1)
    ELSE m

\* sort_counting(arr, s, e, d, ...) run from its first line to its last
SeqCounting(m, len, s, e, d) ==
  LET cnt == CountLoop(m.arr, s, e, d, ZeroCounts)
      m1 == [m EXCEPT !.g = SeqPrefix(SeqFold(m.g, cnt), 1)]
  IN SeqCopy(SeqScatter(m1, len, s, e, d), s, e, s)

\* sort_radix_thread on chunk i of the pass with digit index d
SeqThread(m, len, i, d) ==
  LET s == StartIdx(i, len)
      e == EndIdx(i, len)
  IN IF e - s + 1 <= INSERTION_SORT_THRESHOLD
       THEN [m EXCEPT !.arr = sort_insertion(m.arr, s, e)]
       ELSE SeqCounting(m, len, s, e, d)

\* the workers 0 .. MAX_THREADS-1 of one pass, in that order
RECURSIVE SeqWorkers(_, _, _, _)
SeqWorkers(m, len, i, d) ==
  IF i < MAX_THREADS THEN SeqWorkers(SeqThread(m, len, i, d), len, i + 1, d) ELSE m

\* the loop of sort_radix (line 133) for the passes d, d+1, ... whose shift
\* count is below the width of int, with the memset of line 180 after each
RECURSIVE SeqPasses(_, _, _, _)
SeqPasses(m, len, mx, d) ==
  IF d < NumDigits /\ ShrWide(mx, DigitBits * d) > 0
    THEN SeqPasses([SeqWorkers(m, len, 0, d) EXCEPT !.g = ZeroCounts],
                   len, mx, d + 1)
    ELSE m

\* sort_radix(a, len), len >= 1, under that schedule
SeqSortRadix(a, len) ==
  SeqPasses([arr |-> a, sorted |-> [k \in 0 .. (len - 1) |-> Uninit],
             g |-> ZeroCounts, wild |-> FALSE],
            len, MaxFrom(a, len, 1, a[0]), 0)

\* the sequential run reads no indeterminate value and writes inside the buffer
SeqDefined(m, len) == ~m.wild /\ \A k \in 0 .. (len - 1) : m.arr[k] # Uninit

\* C20: the array sort_radix returns does not depend on the interleaving of
\* the workers: whenever the call returns, arr is the array that the run with
\* the workers executed one after the other returns (for the inputs on which
\* that run is itself defined).
C20_Deterministic ==
  (Returned /\ n >= 1 /\ SeqDefined(SeqSortRadix(input, n), n))
    => arr = SeqSortRadix(input, n).arr

\* ---- sort_radix on arrays that take two counting passes ----

\* arrays of MaxN equal elements whose digit 1 is not zero
TwoPassInputs == {[k \in 0 .. (MaxN - 1) |-> RADIX + c] : c \in 0 .. MaxCountVal}

InitTwoPass ==
  /\ n = MaxN
  /\ arr \in TwoPassInputs
  /\ input = arr
  /\ mainpc = "find_max"
  /\ max_elem = 0
  /\ digit_exp = 0
  /\ ci = 0
  /\ cnt_arr_global = ZeroCounts
  /\ sorted_arr = [k \in 0 .. (n - 1) |-> Uninit]
  /\ cnt_arrs_local = [t \in Threads |-> ZeroCounts]
  /\ params = [t \in Threads |-> NoParams]
  /\ wpc = [t \in Threads |-> "idle"]
  /\ wi = [t \in Threads |-> 0]
  /\ wdigit = [t \in Threads |-> 0]
  /\ oob = {}

SpecTwoPass == InitTwoPass /\ [][Next]_vars

\* C16: at the moment the workers of a pass are launched (the driver is about
\* to create worker 0), every counter of cnt_arr_global and of every local
\* histogram is zero, in the first pass and in every later one.
C16_CountersZeroAtLaunch ==
  (mainpc = "create" /\ ci = 0) =>
    /\ cnt_arr_global = ZeroCounts
    /\ \A t \in Threads : cnt_arrs_local[t] = ZeroCounts

\* a second pass is launched after a pass in which counting workers ran
C16_Witness ==
  /\ mainpc = "create" /\ ci = 0
  /\ digit_exp >= 1
  /\ \E k \in 0 .. (n - 1) : sorted_arr[k] # Uninit

\* ---- direct calls of sort_insertion and sort_counting ----
\* One call of one of the two functions on an array of length n, with bounds
\* start_idx in 0 .. n and end_idx in -1 .. n-1: a chunk inside the array when
\* start_idx <= end_idx, an empty one otherwise.  Thread 0 is the caller; a
\* call of sort_counting finds in cnt_arr_global what earlier workers of the
\* pass left there.

CallHistograms == {ZeroCounts, [k \in Digits |-> MaxCountVal]}

InitCalls ==
  /\ n \in 0 .. MaxN
  /\ arr \in [0 .. (n - 1) -> Vals]
  /\ input = arr
  /\ mainpc = "call"
  /\ max_elem = 0
  /\ digit_exp = 0
  /\ ci = 0
  /\ cnt_arr_global \in CallHistograms
  /\ sorted_arr = [k \in 0 .. (n - 1) |-> Uninit]
  /\ cnt_arrs_local = [t \in Threads |-> ZeroCounts]
  /\ params = [t \in Threads |-> NoParams]
  /\ wpc = [t \in Threads |-> "idle"]
  /\ wi = [t \in Threads |-> 0]
  /\ wdigit = [t \in Threads |-> 0]
  /\ oob = {}

CallArgs(s, e) == [start_idx |-> s, end_idx |-> e, digit_exp |-> 0]

\* sort_insertion(arr, s, e), lines 39-52, from the call to the return
CallInsertion ==
  /\ mainpc = "call"
  /\ \E s \in 0 .. n, e \in -1 .. (n - 1) :
       /\ params' = [params EXCEPT ![0] = CallArgs(s, e)]
       /\ arr' = sort_insertion(arr, s, e)
  /\ mainpc' = "sort_insertion"
  /\ wpc' = [wpc EXCEPT ![0] = "done"]
  /\ UNCHANGED <<n, input, max_elem, digit_exp, ci, cnt_arr_global, sorted_arr,
                 cnt_arrs_local, workerRegs, oob>>

\* sort_counting(arr, s, e, 0, ...), lines 56-72: the call and the counting loop
CallCounting ==
  /\ mainpc = "call"
  /\ \E s \in 0 .. n, e \in -1 .. (n - 1) :
       /\ params' = [params EXCEPT ![0] = CallArgs(s, e)]
       /\ cnt_arrs_local' = [cnt_arrs_local EXCEPT ![0] = CountLoop(arr, s, e, 0, @)]
  /\ mainpc' = "sort_counting"
  /\ wpc' = [wpc EXCEPT ![0] = "fold"]
  /\ UNCHANGED <<n, arr, input, max_elem, digit_exp, ci, cnt_arr_global,
                 sorted_arr, workerRegs, oob>>

NextCalls ==
  \/ CallInsertion
  \/ CallCounting
  \/ WFold(0)
  \/ WPrefix(0)
  \/ WScatter(0)
  \/ WScatterWild(0)
  \/ WScatterDec(0)
  \/ WCopy(0)

SpecCalls == InitCalls /\ [][NextCalls]_vars

\* the call was made on a chunk inside the array
ValidChunk == 0 <= params[0].start_idx /\ params[0].start_idx <= params[0].end_idx
                /\ params[0].end_idx < n
OccurrencesIn(a, S, v) == Cardinality({i \in S : a[i] = v})

\* C17: a call sort_insertion(arr, start, end) with 0 <= start <= end < n
\* returns with arr[start..end] non-decreasing and a permutation of what it
\* held at the call, and with every element outside [start, end] unchanged.
C17_InsertionSortsChunk ==
  (mainpc = "sort_insertion" /\ ValidChunk) =>
    /\ \A i \in Chunk(0) : i + 1 \in Chunk(0) => arr[i] <= arr[i + 1]
    /\ \A v \in Vals : OccurrencesIn(arr, Chunk(0), v) = OccurrencesIn(input, Chunk(0), v)
    /\ \A i \in (0 .. (n - 1)) \ Chunk(0) : arr[i] = input[i]

\* sort_insertion has returned from a chunk strictly inside the array that was
\* out of order, its first element among those that moved
C17_Witness ==
  /\ mainpc = "sort_insertion" /\ ValidChunk
  /\ params[0].start_idx > 0 /\ params[0].end_idx < n - 1
  /\ arr[params[0].start_idx] # input[params[0].start_idx]

\* C18: a call of sort_insertion or of sort_counting on an empty chunk
\* (start_idx > end_idx) changes nothing: no step of the call, from its first
\* to its last, changes arr, sorted_arr or cnt_arr_global.
C18_EmptyChunkNoOp ==
  [][params'[0].start_idx > params'[0].end_idx
       => UNCHANGED <<arr, sorted_arr, cnt_arr_global>>]_vars

====
